---------------------------- MODULE Spec2Model ----------------------------
(***************************************************************************)
(* A model of transcripts.py (corbettr/transcripts): the text segmentation *)
(* and record extraction pipeline behind analyze_transcripts.              *)
(*                                                                         *)
(* Texts are TLA+ strings, read character by character (Len, SubSeq, \o),  *)
(* and every regular expression of the source is a scanning operator that  *)
(* does what Python's re does with that pattern.  A Python dict is a       *)
(* function from its keys; a function that can raise returns a record      *)
(* whose field "raised" names the exception ("" when it returns).          *)
(* Numbers: a credit value d.dd is the integer 100 * d.dd (hundredths), a  *)
(* grade point is the integer 1000 * value (thousandths), and a quotient   *)
(* is kept exact as numerator and denominator.                             *)
(***************************************************************************)
EXTENDS Integers, Sequences, FiniteSets, TLC

VARIABLES
    creds,         \* the default argument creds=dict() of transcript_data
    pc,            \* where analyze_transcripts is: idle, loop, returned, raised
    transcripts,   \* the list separate_students returned for the current call
    idx,           \* loop position in transcripts (1-based)
    records_list,  \* the rows built so far by the current call
    df,            \* the table the call returned (Nothing before)
    written,       \* whether the call wrote its output file
    raised,        \* the exception the call ended with ("" when none)
    docs,          \* the documents the current call's text was laid out from
    creds0,        \* history: creds as the current call found it
    text,          \* segmentation: the text handed to separate_students
    ntok,          \* segmentation: the number of tokens text was put together from
    blocks,        \* segmentation: the transcripts separate_students returned
    names,         \* segmentation: the names separate_students returned
    splits,        \* segmentation: grades_of_subj's semester_split of every block
    split_raised,  \* segmentation: whether grades_of_subj raised on the block
    spc            \* segmentation: build, normalized, separated, split

vars == <<creds, pc, transcripts, idx, records_list, df, written, raised,
          docs, creds0, text, ntok, blocks, names, splits, split_raised, spc>>

run_vars == <<creds, pc, transcripts, idx, records_list, df, written, raised,
              docs, creds0>>

seg_vars == <<text, ntok, blocks, names, splits, split_raised, spc>>

-----------------------------------------------------------------------------
(* Configuration, transcripts.py lines 39-56.                              *)

CURR_SEM == "S22"

SUBJECTS == <<"MTH", "PHY">>

IGNORE_COURSES ==
    [subj \in {"MTH", "PHY"} |->
        IF subj = "MTH"
        THEN {"MTH 1", "MTH 3", "MTH 4", "MTH 5", "MTH 6", "MTH 15", "MTH 16",
              "MTH 19", "MTH 90"}
        ELSE {"PHY 3", "PHY 4"}]

\* grade points in thousandths
GPA_VAL ==
    [g \in {"A", "A-", "B+", "B", "B-", "C+", "C", "C-", "D", "F"} |->
        CASE g = "A"  -> 4000 [] g = "A-" -> 3667 [] g = "B+" -> 3333
          [] g = "B"  -> 3000 [] g = "B-" -> 2667 [] g = "C+" -> 2333
          [] g = "C"  -> 2000 [] g = "C-" -> 1667 [] g = "D"  -> 1000
          [] g = "F"  -> 0]

-----------------------------------------------------------------------------
(* Characters and literal search.                                          *)

NL == "\n"

Digit == {"0", "1", "2", "3", "4", "5", "6", "7", "8", "9"}

Upper == {"A", "B", "C", "D", "E", "F", "G", "H", "I", "J", "K", "L", "M",
          "N", "O", "P", "Q", "R", "S", "T", "U", "V", "W", "X", "Y", "Z"}

\* the character of s at position i, "" outside s
Ch(s, i) == IF 1 <= i /\ i <= Len(s) THEN SubSeq(s, i, i) ELSE ""

\* s from position i to position j, "" when there is nothing between
Sub(s, i, j) == IF i <= j THEN SubSeq(s, i, j) ELSE ""

\* the regular expression '.': any character but a newline
Dot(c) == c # "" /\ c # NL

\* the literal lit matches in s at position i
StartsAt(s, i, lit) ==
    /\ i >= 1
    /\ i + Len(lit) - 1 <= Len(s)
    /\ SubSeq(s, i, i + Len(lit) - 1) = lit

\* the least element of a non-empty set of positions, 0 for the empty set
First(P) == IF P = {} THEN 0 ELSE CHOOSE p \in P : \A r \in P : p <= r

\* the first position >= i where the literal lit matches in s, 0 when none
Find(s, i, lit) == First({p \in i..(Len(s) - Len(lit) + 1) : StartsAt(s, p, lit)})

\* the pattern [0-9]\.[0-9][0-9] matches in s at position q
IsDec(s, q) ==
    /\ Ch(s, q) \in Digit
    /\ Ch(s, q + 1) = "."
    /\ Ch(s, q + 2) \in Digit
    /\ Ch(s, q + 3) \in Digit

DigitVal(c) ==
    CASE c = "0" -> 0 [] c = "1" -> 1 [] c = "2" -> 2 [] c = "3" -> 3
      [] c = "4" -> 4 [] c = "5" -> 5 [] c = "6" -> 6 [] c = "7" -> 7
      [] c = "8" -> 8 [] c = "9" -> 9

\* float() of a d.dd token, in hundredths
Float(tok) ==
    100 * DigitVal(Ch(tok, 1)) + 10 * DigitVal(Ch(tok, 3)) + DigitVal(Ch(tok, 4))

\* re.findall(prefix + "(.*)\n", s) from position i: .* stops at the newline
RECURSIVE findall_to_eol(_, _, _)
findall_to_eol(s, i, prefix) ==
    LET p  == Find(s, i, prefix)
        nl == IF p = 0 THEN 0 ELSE Find(s, p + Len(prefix), NL)
    IN  IF p = 0 \/ nl = 0 THEN << >>
        ELSE <<Sub(s, p + Len(prefix), nl - 1)>> \o findall_to_eol(s, nl + 1, prefix)

\* re.split(lit, s) from position i
RECURSIVE re_split(_, _, _)
re_split(s, i, lit) ==
    LET p == Find(s, i, lit)
    IN  IF p = 0 THEN <<Sub(s, i, Len(s))>>
        ELSE <<Sub(s, i, p - 1)>> \o re_split(s, p + Len(lit), lit)

\* re.sub(lit, rep, s) from position i
RECURSIVE re_sub(_, _, _, _)
re_sub(s, i, lit, rep) ==
    LET p == Find(s, i, lit)
    IN  IF p = 0 THEN Sub(s, i, Len(s))
        ELSE Sub(s, i, p - 1) \o rep \o re_sub(s, p + Len(lit), lit, rep)

-----------------------------------------------------------------------------
(* remove_extra_spaces, lines 101-102: re.sub(" + *", " ", text).          *)

\* Every maximal run of spaces is one match and becomes one space: a space
\* stays when the character before it is no space, every other character stays.
\* The text from lo to hi, so rewritten (the halves are rewritten apart).
RECURSIVE remove_extra_spaces_in(_, _, _)
remove_extra_spaces_in(s, lo, hi) ==
    IF lo > hi THEN ""
    ELSE IF lo = hi
         THEN IF Ch(s, lo) = " " /\ Ch(s, lo - 1) = " " THEN "" ELSE Ch(s, lo)
    ELSE LET mid == (lo + hi) \div 2
         IN  remove_extra_spaces_in(s, lo, mid) \o remove_extra_spaces_in(s, mid + 1, hi)

remove_extra_spaces(s) == remove_extra_spaces_in(s, 1, Len(s))

-----------------------------------------------------------------------------
(* separate_students, lines 105-122.                                       *)

NAME_SPLITTER == "Name : "

\* lines 113-117: split, delete the first piece, put the delimiter back
separate_students_split(s, name_splitter) ==
    LET pieces == Tail(re_split(s, 1, name_splitter))
    IN  [i \in 1..Len(pieces) |-> name_splitter \o pieces[i]]

\* separate_students(text, name_splitter, name_ret=True)
separate_students(s, name_splitter) ==
    [transcripts |-> separate_students_split(s, name_splitter),
     names       |-> findall_to_eol(s, 1, name_splitter)]

-----------------------------------------------------------------------------
(* sem_abbr, lines 262-268.                                                *)

\* re.sub("20([0-9][0-9])", r"\1", s) from position i
RECURSIVE sub_century(_, _)
sub_century(s, i) ==
    LET p == First({r \in i..Len(s) : /\ StartsAt(s, r, "20")
                                      /\ Ch(s, r + 2) \in Digit
                                      /\ Ch(s, r + 3) \in Digit})
    IN  IF p = 0 THEN Sub(s, i, Len(s))
        ELSE Sub(s, i, p - 1) \o Sub(s, p + 2, p + 3) \o sub_century(s, p + 4)

sem_abbr(semester) ==
    LET s0 == sub_century(semester, 1)
        s1 == re_sub(s0, 1, "Fall ", "F")
        s2 == re_sub(s1, 1, "Spring ", "S")
        s3 == re_sub(s2, 1, "Summer ", "Sum")
    IN  re_sub(s3, 1, "Winter ", "Win")

-----------------------------------------------------------------------------
(* grades_of_subj, lines 214-259.                                          *)

SEASONS == <<"Fall 20", "Spring 20", "Summer 20", "Winter 20">>

\* the length of the match of (Fall 20..|Spring 20..|Summer 20..|Winter 20..)
\* in s at position i, 0 when there is none
SemLenAt(s, i) ==
    LET hits == {k \in 1..Len(SEASONS) :
                    /\ StartsAt(s, i, SEASONS[k])
                    /\ Dot(Ch(s, i + Len(SEASONS[k])))
                    /\ Dot(Ch(s, i + Len(SEASONS[k]) + 1))}
    IN  IF hits = {} THEN 0 ELSE Len(SEASONS[CHOOSE k \in hits : TRUE]) + 2

\* re.split with the pattern in a capturing group: the piece from start to the
\* match, the match, and on from the end of the match
RECURSIVE semester_split_from(_, _)
semester_split_from(s, i) ==
    LET p == First({r \in i..Len(s) : SemLenAt(s, r) > 0})
        n == SemLenAt(s, p)
    IN  IF p = 0 THEN <<Sub(s, i, Len(s))>>
        ELSE <<Sub(s, i, p - 1), Sub(s, p, p + n - 1)>> \o semester_split_from(s, p + n)

\* re.split with the pattern in no group: the matches are dropped
RECURSIVE semester_split_nogroup_from(_, _)
semester_split_nogroup_from(s, i) ==
    LET p == First({r \in i..Len(s) : SemLenAt(s, r) > 0})
        n == SemLenAt(s, p)
    IN  IF p = 0 THEN <<Sub(s, i, Len(s))>>
        ELSE <<Sub(s, i, p - 1)>> \o semester_split_nogroup_from(s, p + n)

semester_split_nogroup(transcript) == semester_split_nogroup_from(transcript, 1)

\* lines 228-229
semester_split_of(transcript) == semester_split_from(transcript, 1)

\* line 240: re.findall(subj + " .* [0-9]\.[0-9][0-9].*\n", info) from position
\* i.  A match starts at the subject prefix and ends with its line; it needs a
\* space and a d.dd field somewhere after the prefix's space, before the newline.
RECURSIVE raw_grades_from(_, _, _)
raw_grades_from(info, i, subj) ==
    LET p    == Find(info, i, subj \o " ")
        from == p + Len(subj) + 1
        nl   == IF p = 0 THEN 0 ELSE Find(info, from, NL)
    IN  IF p = 0 \/ nl = 0 THEN << >>
        ELSE IF \E q \in from..(nl - 5) : Ch(info, q) = " " /\ IsDec(info, q + 1)
             THEN <<Sub(info, p, nl)>> \o raw_grades_from(info, nl + 1, subj)
             ELSE raw_grades_from(info, p + 1, subj)

\* line 243: re.findall(subj + " ([0-9]+[A-Z]?|NE) ", line) from position i; only
\* the first capture is used: "" when the list is empty
RECURSIVE course_num_from(_, _, _)
course_num_from(line, i, subj) ==
    LET p    == Find(line, i, subj \o " ")
        from == p + Len(subj) + 1
        nd   == CHOOSE n \in 0..Len(line) :
                    /\ \A k \in 0..(n - 1) : Ch(line, from + k) \in Digit
                    /\ Ch(line, from + n) \notin Digit
    IN  IF p = 0 THEN ""
        ELSE IF nd >= 1 /\ Ch(line, from + nd) \in Upper /\ Ch(line, from + nd + 1) = " "
             THEN Sub(line, from, from + nd)
        ELSE IF nd >= 1 /\ Ch(line, from + nd) = " "
             THEN Sub(line, from, from + nd - 1)
        ELSE IF StartsAt(line, from, "NE ")
             THEN "NE"
        ELSE course_num_from(line, p + 1, subj)

\* line 247: the first match of [0-9]\.[0-9][0-9] in line, "" when none
first_dec_from(line, i) ==
    LET q == First({r \in i..Len(line) : IsDec(line, r)})
    IN  IF q = 0 THEN "" ELSE Sub(line, q, q + 3)

\* lines 250-251: the first capture of
\* [0-9]\.[0-9][0-9] [0-9]\.[0-9][0-9] ([A-Z]\+?\-?) in line, "" when none
grade_from(line, i) ==
    LET q == First({r \in i..Len(line) :
                      /\ IsDec(line, r) /\ Ch(line, r + 4) = " "
                      /\ IsDec(line, r + 5) /\ Ch(line, r + 9) = " "
                      /\ Ch(line, r + 10) \in Upper})
        plus  == IF Ch(line, q + 11) = "+" THEN 1 ELSE 0
        minus == IF Ch(line, q + 11 + plus) = "-" THEN 1 ELSE 0
    IN  IF q = 0 THEN "" ELSE Sub(line, q + 10, q + 10 + plus + minus)

\* a dict with d[k] = v assigned
Assign(d, k, v) == (k :> v) @@ d

\* lines 246-248 with the test of line 246 dropped: every line sets the credit
creds_update_always(cr, course, line) ==
    Assign(cr, course, Float(first_dec_from(line, 1)))

\* lines 246-248: the credit of a course is set by the first line that has it
creds_update(cr, course, line) ==
    IF course \notin DOMAIN cr
    THEN Assign(cr, course, Float(first_dec_from(line, 1)))
    ELSE cr

\* line 257 assigning only a course not yet in the dict
grades_update_first(grades_dict, course, grade) ==
    IF course \in DOMAIN grades_dict THEN grades_dict
    ELSE Assign(grades_dict, course, grade)

\* line 257
grades_update(grades_dict, course, grade) == Assign(grades_dict, course, grade)

\* lines 242-257, one course line; st holds grades_dict, creds and raised
line_body(line, subj, semester, st) ==
    LET course_num == course_num_from(line, 1, subj)
        course     == subj \o " " \o course_num
        g          == grade_from(line, 1)
        grade      == IF g # "" THEN g ELSE sem_abbr(semester)
    IN  IF course_num = "" \/ (course \notin DOMAIN st.creds /\ first_dec_from(line, 1) = "")
        THEN [st EXCEPT !.raised = "IndexError in grades_of_subj"]
        ELSE [raised      |-> "",
              grades_dict |-> grades_update(st.grades_dict, course, grade),
              creds       |-> creds_update(st.creds, course, line)]

\* the loop of line 242 from line k on; it ends at the first line that raises
RECURSIVE lines_loop(_, _, _, _, _)
lines_loop(raw_grades, k, subj, semester, st) ==
    IF k > Len(raw_grades) \/ st.raised # "" THEN st
    ELSE lines_loop(raw_grades, k + 1, subj, semester,
                    line_body(raw_grades[k], subj, semester, st))

\* the loop of line 237 from i on (i counts from 0 as in the source)
RECURSIVE semesters_loop(_, _, _, _)
semesters_loop(semester_split, i, subj, st) ==
    IF i >= Len(semester_split) \div 2 \/ st.raised # "" THEN st
    ELSE LET semester == semester_split[2 * i + 2]
             info     == semester_split[2 * i + 3]
         IN  semesters_loop(semester_split, i + 1, subj,
                 lines_loop(raw_grades_from(info, 1, subj), 1, subj, semester, st))

\* grades_of_subj(transcript, subj, creds): the dict it returns, creds as it leaves
\* it (also when it raises), and the exception
grades_of_subj(transcript, subj, cr) ==
    LET semester_split == semester_split_of(transcript)
        plan == findall_to_eol(semester_split[Len(semester_split)], 1, "Plan : ")
    IN  IF Len(semester_split) % 2 # 1
        THEN [raised |-> "Exception in grades_of_subj", grades_dict |-> << >>, creds |-> cr]
        ELSE semesters_loop(semester_split, 0, subj,
                 [raised      |-> "",
                  grades_dict |-> IF plan # << >> THEN Assign(<< >>, "Plan", plan[1])
                                  ELSE << >>,
                  creds       |-> cr])

-----------------------------------------------------------------------------
(* personal_info, lines 189-211.                                           *)

\* line 194: re.findall("Address : (.*)\n (.*)\n (.*)\n", s) from position i
RECURSIVE findall_address(_, _)
findall_address(s, i) ==
    LET p   == Find(s, i, "Address : ")
        nl1 == Find(s, p + 10, NL)
        nl2 == IF nl1 # 0 /\ Ch(s, nl1 + 1) = " " THEN Find(s, nl1 + 2, NL) ELSE 0
        nl3 == IF nl2 # 0 /\ Ch(s, nl2 + 1) = " " THEN Find(s, nl2 + 2, NL) ELSE 0
    IN  IF p = 0 THEN << >>
        ELSE IF nl3 # 0
             THEN << <<Sub(s, p + 10, nl1 - 1), Sub(s, nl1 + 2, nl2 - 1),
                       Sub(s, nl2 + 2, nl3 - 1)>> >> \o findall_address(s, nl3 + 1)
        ELSE findall_address(s, p + 1)

\* lines 195-202
address_fields(address) ==
    IF address # << >>
    THEN ("Address1" :> address[1][1]) @@ ("Address2" :> address[1][2])
         @@ ("Address3" :> address[1][3])
    ELSE ("Address1" :> "") @@ ("Address2" :> "") @@ ("Address3" :> "")

\* lines 191-193 with the missing fields left empty instead of raising
mandatory_fields_lenient(transcript) ==
    LET name       == findall_to_eol(transcript, 1, "Name : ")
        student_id == findall_to_eol(transcript, 1, "Student ID: ")
        sex        == findall_to_eol(transcript, 1, "Sex : ")
        first(l)   == IF l = << >> THEN "" ELSE l[1]
    IN  [raised |-> "",
         data_dict |-> ("Name" :> first(name)) @@ ("Student_ID" :> first(student_id))
                       @@ ("Sex" :> first(sex))]

\* lines 191-193: [0] of an empty list raises IndexError
mandatory_fields(transcript) ==
    LET name       == findall_to_eol(transcript, 1, "Name : ")
        student_id == findall_to_eol(transcript, 1, "Student ID: ")
        sex        == findall_to_eol(transcript, 1, "Sex : ")
    IN  IF name = << >> \/ student_id = << >> \/ sex = << >>
        THEN [raised |-> "IndexError in personal_info", data_dict |-> << >>]
        ELSE [raised |-> "",
              data_dict |-> ("Name" :> name[1]) @@ ("Student_ID" :> student_id[1])
                            @@ ("Sex" :> sex[1])]

personal_info(transcript) ==
    LET m == mandatory_fields(transcript)
    IN  IF m.raised # "" THEN m
        ELSE [m EXCEPT !.data_dict = @ @@ address_fields(findall_address(transcript, 1))]

-----------------------------------------------------------------------------
(* subj_summary, lines 157-186.                                            *)

NaN == [nan |-> TRUE, num |-> 0, den |-> 0]

\* sum([f[course] for course in courses])
RECURSIVE SumOver(_, _)
SumOver(courses, f) ==
    IF courses = {} THEN 0
    ELSE LET c == CHOOSE x \in courses : TRUE
         IN  f[c] + SumOver(courses \ {c}, f)

\* lines 174-177 with the quotient guarded by the number of courses
gpa_of_count(num_taken, gpa_creds, creds_taken) ==
    IF num_taken > 0 /\ creds_taken > 0
    THEN [nan |-> FALSE, num |-> gpa_creds, den |-> creds_taken]
    ELSE IF num_taken > 0 THEN [nan |-> FALSE, num |-> 0, den |-> 1]
    ELSE NaN

\* lines 174-177: the quotient gpa_creds/creds_taken, or nan
gpa_of(num_taken, gpa_creds, creds_taken) ==
    IF creds_taken > 0
    THEN [nan |-> FALSE, num |-> gpa_creds, den |-> creds_taken]
    ELSE NaN

\* lines 167-169
courses_to_count_of(subj, subj_grades) ==
    {course \in DOMAIN subj_grades :
        course \notin IGNORE_COURSES[subj] /\ subj_grades[course] \in DOMAIN GPA_VAL}

\* lines 178-180 counting every value that is no letter grade
num_in_progress_any(subj, subj_grades) ==
    SumOver({course \in DOMAIN subj_grades :
                /\ course \notin IGNORE_COURSES[subj]
                /\ subj_grades[course] \notin DOMAIN GPA_VAL},
            [course \in DOMAIN subj_grades |-> 1])

\* lines 178-180
num_in_progress_of(subj, subj_grades) ==
    SumOver({course \in DOMAIN subj_grades :
                /\ course \notin IGNORE_COURSES[subj]
                /\ subj_grades[course] = CURR_SEM},
            [course \in DOMAIN subj_grades |-> 1])

\* the keys of the dict subj_summary returns for subj
K_courses(subj) == "Num " \o subj \o "^ courses"
K_creds(subj)   == "Num " \o subj \o "^ creds"
K_gpa(subj)     == subj \o "^ GPA"
K_now(subj)     == "Num " \o subj \o "^ now"

subj_summary(subj, subj_grades, cr) ==
    LET courses_to_count == courses_to_count_of(subj, subj_grades)
        credit           == [course \in courses_to_count |-> cr[course]]
        points           == [course \in courses_to_count |->
                                GPA_VAL[subj_grades[course]] * cr[course]]
        num_taken        == Cardinality(courses_to_count)
        creds_taken      == SumOver(courses_to_count, credit)
        gpa_creds        == SumOver(courses_to_count, points)
    IN  IF \E course \in courses_to_count : course \notin DOMAIN cr
        THEN [raised |-> "KeyError in subj_summary", summary |-> << >>]
        ELSE [raised  |-> "",
              summary |-> (K_courses(subj) :> num_taken)
                          @@ (K_creds(subj) :> creds_taken)
                          @@ (K_gpa(subj) :> gpa_of(num_taken, gpa_creds, creds_taken))
                          @@ (K_now(subj) :> num_in_progress_of(subj, subj_grades))]

-----------------------------------------------------------------------------
(* transcript_data, lines 125-154.                                         *)

\* data_dict.update(other)
Update(data_dict, other) == other @@ data_dict

\* lines 137-140 from subject j on; st holds data_dict, creds and raised.
\* subj_grades is what line 138 returned and summary what line 140 computed.
RECURSIVE subjects_loop(_, _, _)

\* lines 139-140: the two updates of data_dict
subjects_update(transcript, j, st, subj_grades, summary) ==
    IF summary.raised # ""
    THEN [st EXCEPT !.raised = summary.raised, !.creds = subj_grades.creds]
    ELSE subjects_loop(transcript, j + 1,
             [raised    |-> "",
              data_dict |-> Update(Update(st.data_dict, subj_grades.grades_dict),
                                   summary.summary),
              creds     |-> subj_grades.creds])

\* line 140: subj_summary on the dict line 138 returned
subjects_summary(transcript, j, st, subj_grades) ==
    IF subj_grades.raised # ""
    THEN [st EXCEPT !.raised = subj_grades.raised, !.creds = subj_grades.creds]
    ELSE subjects_update(transcript, j, st, subj_grades,
             subj_summary(SUBJECTS[j], subj_grades.grades_dict, subj_grades.creds))

subjects_loop(transcript, j, st) ==
    IF j > Len(SUBJECTS) \/ st.raised # "" THEN st
    ELSE subjects_summary(transcript, j, st,
             grades_of_subj(transcript, SUBJECTS[j], st.creds))

\* lines 137-141 after personal_info returned info
loop_subjects(transcript, cr, info) ==
    IF info.raised # ""
    THEN [raised |-> info.raised, data_dict |-> << >>, creds |-> cr]
    ELSE subjects_loop(transcript, 1,
             [raised |-> "", data_dict |-> info.data_dict, creds |-> cr])

\* lines 136-141, one transcript: its row, creds as the body leaves it (also
\* when it raises), and the exception
loop_body(transcript, cr) == loop_subjects(transcript, cr, personal_info(transcript))

\* lines 143-154: the fixed columns, then one column for every key of creds
\* (natsorted puts them in an order; the model keeps the set of them); a row
\* is a record's values under the columns
FIXED_COLS ==
    <<"Name", "Student_ID", "Plan", "Sex", "Address1", "Address2", "Address3">>

subj_summ_cols ==
    <<K_courses("MTH"), K_gpa("MTH"), K_now("MTH"),
      K_courses("PHY"), K_gpa("PHY"), K_now("PHY")>>

Range(f) == {f[x] : x \in DOMAIN f}

DataFrame(records, cr) ==
    LET columns == Range(FIXED_COLS) \cup Range(subj_summ_cols) \cup DOMAIN cr
    IN  [fixed       |-> FIXED_COLS \o subj_summ_cols,
         course_cols |-> DOMAIN cr,
         rows        |-> [r \in 1..Len(records) |->
                            [c \in columns \cap DOMAIN records[r] |-> records[r][c]]]]

-----------------------------------------------------------------------------
(* The input domain: documents and the text a PDF of them extracts to.     *)
(* A document is one student's transcript as the registrar prints it: the  *)
(* personal lines, then semester headers and course lines, then the Plan.  *)

MaxStudents == 2    \* transcripts in one PDF
MaxItems == 4       \* semester headers and course lines in one transcript
MaxLines == 2       \* course lines in the one semester of a transcript
MaxTokens == 4      \* tokens of a text handed to separate_students

Sem(label) ==
    [kind |-> "sem", label |-> label, subj |-> "", num |-> "", c1 |-> "",
     c2 |-> "", grade |-> ""]

\* a course line: subject, number, title, credit hours attempted (c1), and
\* for a finished course the hours earned (c2) and the grade
Course(subj, num, c1, c2, grade) ==
    [kind |-> "course", label |-> "", subj |-> subj, num |-> num, c1 |-> c1,
     c2 |-> c2, grade |-> grade]

LABELS == {"Fall 2021", "Spring 2022"}

\* the items of the transcripts that put the same course on several lines
ITEMS ==
    {Sem("Fall 2021"), Sem("Spring 2022"),
     Course("MTH", "9", "4.00", "4.00", "A"),
     Course("MTH", "9", "3.00", "", ""),
     Course("PHY", "11", "4.00", "4.00", "C")}

\* the course lines of the transcripts of one semester: a graded course, the
\* same course in progress at another credit, an ignored course graded and in
\* progress, a course of no credit, a grade outside GPA_VAL, a line whose
\* course number is not printed yet, and a course of the other subject
LINES ==
    <<Course("MTH", "9", "4.00", "4.00", "A"),
      Course("MTH", "9", "3.00", "", ""),
      Course("MTH", "1", "3.00", "3.00", "B-"),
      Course("MTH", "1", "3.00", "", ""),
      Course("MTH", "30", "0.00", "0.00", "C"),
      Course("MTH", "22A", "3.00", "3.00", "P"),
      Course("MTH", "TBA", "3.00", "3.00", "A"),
      Course("PHY", "12", "3.00", "3.00", "B-")>>

PLANS == {"", "Math", "A", "S22"}

Person(name, sid, sex, addr, nameline) ==
    [name |-> name, sid |-> sid, sex |-> sex, addr |-> addr, nameline |-> nameline]

FullHead == Person("Ann", "1", "F", TRUE, TRUE)

Doc(head, items, plan) == [head |-> head, items |-> items, plan |-> plan]

LayoutHead(h) ==
    IF ~h.nameline THEN "Name : " \o h.name \o " "
    ELSE "Name : " \o h.name \o "\n"
         \o (IF h.sid # "" THEN "Student ID: " \o h.sid \o "\n" ELSE "")
         \o (IF h.sex # "" THEN "Sex : " \o h.sex \o "\n" ELSE "")
         \o (IF h.addr THEN "Address : 1 Main\n Town\n NY\n" ELSE "")

LayoutItem(it) ==
    IF it.kind = "sem" THEN it.label \o "\n"
    ELSE it.subj \o " " \o it.num \o "  Title  " \o it.c1
         \o (IF it.c2 # "" THEN " " \o it.c2 ELSE "")
         \o (IF it.grade # "" THEN " " \o it.grade ELSE "") \o "\n"

RECURSIVE Concat(_)
Concat(strs) == IF strs = << >> THEN "" ELSE Head(strs) \o Concat(Tail(strs))

LayoutDoc(d) ==
    LayoutHead(d.head)
    \o (IF d.head.nameline
        THEN Concat([i \in 1..Len(d.items) |-> LayoutItem(d.items[i])])
             \o (IF d.plan # "" THEN "Plan : " \o d.plan \o "\n" ELSE "")
        ELSE "")

\* scrape_pdf, lines 88-98, of a PDF of one page
scrape_pdf(ds) ==
    "\n" \o Concat([i \in 1..Len(ds) |-> LayoutDoc(ds[i])]) \o "\n"

SeqsUpTo(S, n) == UNION {[1..k -> S] : k \in 0..n}

\* the transcripts of the pipeline runs
B1 == <<Sem("Fall 2021"), Course("MTH", "9", "4.00", "4.00", "A")>>
B2 == <<Sem("Spring 2022"), Course("MTH", "9", "3.00", "", ""),
        Course("PHY", "11", "0.00", "0.00", "C")>>

RUN_DOCS ==
    {Doc(FullHead, B1, "Math"),
     Doc(FullHead, B2, ""),
     Doc(Person("Bob", "2", "M", FALSE, TRUE), B2, "Math"),
     Doc(Person("Cy", "", "M", TRUE, TRUE), B1, "Math"),
     Doc(Person("Di", "4", "", FALSE, TRUE), B1, "Math"),
     Doc(Person("Ed", "5", "M", TRUE, FALSE), << >>, "")}

\* the transcripts of up to MaxItems items in any order
ORDER_DOCS == {Doc(FullHead, items, "Math") : items \in SeqsUpTo(ITEMS, MaxItems)}

\* the lines of LINES at the positions in I, in the order of LINES
RECURSIVE Pick(_, _)
Pick(I, k) ==
    IF k > Len(LINES) THEN << >>
    ELSE (IF k \in I THEN <<LINES[k]>> ELSE << >>) \o Pick(I, k + 1)

\* the transcripts of one semester of up to MaxLines lines, with every Plan
SUMM_DOCS ==
    {Doc(FullHead, <<Sem(label)>> \o Pick(I, 1), plan) :
        label \in LABELS,
        I \in {J \in SUBSET (1..Len(LINES)) : Cardinality(J) <= MaxLines},
        plan \in PLANS}

TOKENS == {"Name : ", "Name :", "Ann", " ", "\n", "Fall 2021", "Winter 20"}

-----------------------------------------------------------------------------
(* analyze_transcripts, lines 59-85, and the loop of transcript_data.      *)

\* lines 79-82, up to the loop of transcript_data; creds is the dict the
\* default argument of line 125 was bound to when the function was defined
analyze_transcripts_call(ds) ==
    /\ pc = "idle"
    /\ LET raw_text       == scrape_pdf(ds)
           one_space_text == remove_extra_spaces(raw_text)
       IN  transcripts' = separate_students_split(one_space_text, NAME_SPLITTER)
    /\ docs' = ds
    /\ creds0' = creds
    /\ pc' = "loop"
    /\ idx' = 1
    /\ records_list' = << >>
    /\ df' = << >>
    /\ written' = FALSE
    /\ raised' = ""
    /\ UNCHANGED <<creds, seg_vars>>

\* line 141 after the body r of the pass, or the end of the call by its exception
loop_end(r) ==
    /\ creds' = r.creds
    /\ raised' = r.raised
    /\ IF r.raised # ""
       THEN pc' = "raised" /\ records_list' = << >> /\ idx' = idx
       ELSE /\ pc' = "loop"
            /\ records_list' = Append(records_list, r.data_dict)
            /\ idx' = idx + 1

\* lines 135-141, one pass of the loop; an exception ends the call
transcript_data_loop ==
    /\ pc = "loop"
    /\ idx <= Len(transcripts)
    /\ loop_end(loop_body(transcripts[idx], creds))
    /\ UNCHANGED <<transcripts, df, written, docs, creds0, seg_vars>>

\* lines 143-154 and 83-85
transcript_data_return ==
    /\ pc = "loop"
    /\ idx > Len(transcripts)
    /\ df' = <<DataFrame(records_list, creds)>>
    /\ \E output_file \in {"TranscriptSummary.xlsx", ""} : written' = (output_file # "")
    /\ pc' = "returned"
    /\ UNCHANGED <<creds, transcripts, idx, records_list, raised, docs, creds0, seg_vars>>

SegIdle ==
    /\ text = "" /\ ntok = 0 /\ blocks = << >> /\ names = << >>
    /\ splits = << >> /\ split_raised = << >> /\ spc = "build"

RunIdle ==
    /\ pc = "idle" /\ transcripts = << >> /\ idx = 1 /\ records_list = << >>
    /\ df = << >> /\ written = FALSE /\ raised = "" /\ docs = << >>

\* transcript_runner.py lines 12-15: the caller goes on; the table or the
\* exception of the call is dropped, the module (and with it creds) stays loaded
caller_resumes ==
    /\ pc \in {"returned", "raised"}
    /\ pc' = "idle"
    /\ transcripts' = << >> /\ idx' = 1 /\ records_list' = << >> /\ df' = << >>
    /\ written' = FALSE /\ raised' = "" /\ docs' = << >>
    /\ UNCHANGED <<creds, creds0, seg_vars>>

\* a session that calls analyze_transcripts again and again
Init == RunIdle /\ creds = << >> /\ creds0 = << >> /\ SegIdle

Next ==
    \/ \E ds \in SeqsUpTo(RUN_DOCS, MaxStudents) : analyze_transcripts_call(ds)
    \/ transcript_data_loop
    \/ transcript_data_return
    \/ caller_resumes

Spec == Init /\ [][Next]_vars

\* one call on one transcript of ORDER_DOCS
NextOrder ==
    \/ \E d \in ORDER_DOCS : analyze_transcripts_call(<<d>>)
    \/ transcript_data_loop
    \/ transcript_data_return

SpecOrder == Init /\ [][NextOrder]_vars

\* one call on one transcript of SUMM_DOCS, with creds empty or as an earlier
\* call on a transcript with MTH 9 at 3.00 left it
InitSumm ==
    /\ RunIdle /\ SegIdle
    /\ creds \in {<< >>, Assign(<< >>, "MTH 9", 300)}
    /\ creds0 = creds

NextSumm ==
    \/ \E d \in SUMM_DOCS : analyze_transcripts_call(<<d>>)
    \/ transcript_data_loop
    \/ transcript_data_return

SpecSumm == InitSumm /\ [][NextSumm]_vars

-----------------------------------------------------------------------------
(* The segmentation of a text: lines 80-81, and lines 228-231 on every      *)
(* block.                                                                  *)

SegAppend(tok) ==
    /\ spc = "build"
    /\ ntok < MaxTokens
    /\ text' = text \o tok
    /\ ntok' = ntok + 1
    /\ UNCHANGED <<blocks, names, splits, split_raised, spc, run_vars>>

SegNormalize ==
    /\ spc = "build"
    /\ text' = remove_extra_spaces(text)
    /\ spc' = "normalized"
    /\ UNCHANGED <<ntok, blocks, names, splits, split_raised, run_vars>>

SegSeparate ==
    /\ spc = "normalized"
    /\ LET r == separate_students(text, NAME_SPLITTER)
       IN  blocks' = r.transcripts /\ names' = r.names
    /\ spc' = "separated"
    /\ UNCHANGED <<text, ntok, splits, split_raised, run_vars>>

SegSplit ==
    /\ spc = "separated"
    /\ splits' = [i \in 1..Len(blocks) |-> semester_split_of(blocks[i])]
    /\ split_raised' = [i \in 1..Len(blocks) |->
                          grades_of_subj(blocks[i], "MTH", << >>).raised
                              = "Exception in grades_of_subj"]
    /\ spc' = "split"
    /\ UNCHANGED <<text, ntok, blocks, names, run_vars>>

InitSeg == RunIdle /\ creds = << >> /\ creds0 = << >> /\ SegIdle

NextSeg ==
    \/ \E tok \in TOKENS : SegAppend(tok)
    \/ SegNormalize
    \/ SegSeparate
    \/ SegSplit

SpecSeg == InitSeg /\ [][NextSeg]_vars

-----------------------------------------------------------------------------
(* What the documents say, read off the documents and not off the text.    *)

\* spec 4.6: the abbreviation of a semester label
Abbr == [label \in LABELS |-> IF label = "Fall 2021" THEN "F21" ELSE "S22"]

\* a printed d.dd credit, in hundredths
Hundredths == [c \in {"0.00", "3.00", "4.00"} |->
                  IF c = "0.00" THEN 0 ELSE IF c = "3.00" THEN 300 ELSE 400]

Key(it) == it.subj \o " " \o it.num

\* the positions of the course lines of subj in d that stand in a semester
CourseAt(d, subj) ==
    {i \in 1..Len(d.items) :
        /\ d.items[i].kind = "course" /\ d.items[i].subj = subj
        /\ \E j \in 1..(i - 1) : d.items[j].kind = "sem"}

\* the label of the semester the item at position p of d is in
SemOf(d, p) ==
    LET j == CHOOSE j \in 1..(p - 1) :
                 /\ d.items[j].kind = "sem"
                 /\ \A r \in (j + 1)..(p - 1) : d.items[r].kind # "sem"
    IN  d.items[j].label

\* what the line at position p of d says of its course: grade or placeholder
ValueAt(d, p) ==
    IF d.items[p].grade # "" THEN d.items[p].grade ELSE Abbr[SemOf(d, p)]

\* the course keys of subj in a row
RowKeys(row, subj) == {k \in DOMAIN row : StartsAt(k, 1, subj \o " ")}

\* the keys of the mapping of subj in a row: its course keys and 'Plan'
MappingKeys(row, subj) == RowKeys(row, subj) \cup ({"Plan"} \cap DOMAIN row)

\* the course lines (student, position) of the first n documents of the call
Mentions(n) ==
    UNION {{<<s, i>> : i \in CourseAt(docs[s], "MTH") \cup CourseAt(docs[s], "PHY")} :
              s \in 1..n}

ItemAt(m) == docs[m[1]].items[m[2]]

Before(m, o) == m[1] < o[1] \/ (m[1] = o[1] /\ m[2] < o[2])

WellFormed(h) == h.nameline /\ h.sid # "" /\ h.sex # ""

-----------------------------------------------------------------------------
(* The claims.                                                             *)

\* C1: within a call the credit table keeps every key it had with the value it
\* had, its keys are those it started with and the course keys of the lines
\* processed so far, and a key entered by the call has the first credit-hour
\* token of the first processed line of that course.
C1_FirstSeenWins ==
    pc \in {"loop", "returned", "raised"} =>
        LET M == Mentions(idx - 1)
        IN  /\ DOMAIN creds = DOMAIN creds0 \cup {Key(ItemAt(m)) : m \in M}
            /\ \A k \in DOMAIN creds0 : creds[k] = creds0[k]
            /\ \A m \in M :
                   (/\ Key(ItemAt(m)) \notin DOMAIN creds0
                    /\ \A o \in M : Before(o, m) => Key(ItemAt(o)) # Key(ItemAt(m)))
                   => creds[Key(ItemAt(m))] = Hundredths[ItemAt(m).c1]

\* a call returned whose second student lists at another credit a course the
\* first student entered
C1_Witness ==
    /\ pc = "returned" /\ creds0 = << >>
    /\ \E m, o \in Mentions(Len(docs)) :
           /\ m[1] < o[1] /\ Key(ItemAt(m)) = Key(ItemAt(o))
           /\ ItemAt(m).c1 # ItemAt(o).c1
           /\ creds[Key(ItemAt(m))] = Hundredths[ItemAt(m).c1]

\* C2: the row of a student holds, for every subject, exactly the course keys
\* of the student's course lines, each with the value of the last line of that
\* key in document order: its grade, or the abbreviation of its semester.
C2_LastWriteWins ==
    Len(records_list) = 1 =>
        \A j \in 1..Len(SUBJECTS) :
            LET d == docs[1]
                P == CourseAt(d, SUBJECTS[j])
            IN  /\ RowKeys(records_list[1], SUBJECTS[j]) = {Key(d.items[p]) : p \in P}
                /\ \A p \in P :
                       (\A q \in P : q > p => Key(d.items[q]) # Key(d.items[p]))
                       => records_list[1][Key(d.items[p])] = ValueAt(d, p)

\* a course with a grade in one semester and in progress in a later one
C2_Witness ==
    /\ Len(records_list) = 1
    /\ \E p, q \in CourseAt(docs[1], "MTH") :
           /\ p < q /\ Key(docs[1].items[p]) = Key(docs[1].items[q])
           /\ SemOf(docs[1], p) # SemOf(docs[1], q)
           /\ ValueAt(docs[1], p) = "A"
           /\ \A r \in CourseAt(docs[1], "MTH") : r <= q
           /\ records_list[1]["MTH 9"] = Abbr[SemOf(docs[1], q)]

\* C3: every call starts with an empty credit table, and the course columns of
\* the table a call returns are the course keys of that call's transcripts.
C3_NoStateBetweenRuns ==
    /\ pc \in {"loop", "returned", "raised"} => creds0 = << >>
    /\ pc = "returned" =>
           df[1].course_cols = {Key(ItemAt(m)) : m \in Mentions(Len(docs))}

\* C4: in a row the course count and the credit total of a subject are taken
\* over the keys of its mapping that are not ignored and whose value is a key
\* of GPA_VAL; the GPA is the sum of grade point times credit over them divided
\* by the credit total, and nan when the credit total is 0.
C4_Summary ==
    Len(records_list) = 1 =>
        \A j \in 1..Len(SUBJECTS) :
            LET subj    == SUBJECTS[j]
                row     == records_list[1]
                counted == {k \in MappingKeys(row, subj) :
                               k \notin IGNORE_COURSES[subj] /\ row[k] \in DOMAIN GPA_VAL}
                total   == SumOver(counted, [k \in counted |-> creds[k]])
                points  == SumOver(counted, [k \in counted |-> GPA_VAL[row[k]] * creds[k]])
                gpa     == row[K_gpa(subj)]
            IN  /\ row[K_courses(subj)] = Cardinality(counted)
                /\ row[K_creds(subj)] = total
                /\ total = 0 => gpa = NaN
                /\ total > 0 => /\ ~gpa.nan /\ gpa.den > 0
                                /\ gpa.num * total = points * gpa.den

\* a student whose only counted course has no credit: one course, GPA nan
C4_Witness ==
    /\ Len(records_list) = 1
    /\ records_list[1][K_courses("MTH")] = 1
    /\ records_list[1][K_creds("MTH")] = 0
    /\ records_list[1][K_gpa("MTH")] = NaN

\* C5: in a row the in-progress count of a subject is the number of keys of its
\* mapping that are not ignored and whose value is CURR_SEM.
C5_InProgress ==
    Len(records_list) = 1 =>
        \A j \in 1..Len(SUBJECTS) :
            LET subj == SUBJECTS[j]
                row  == records_list[1]
            IN  row[K_now(subj)] =
                    Cardinality({k \in MappingKeys(row, subj) :
                                    k \notin IGNORE_COURSES[subj] /\ row[k] = CURR_SEM})

\* an ignored course and another course both in progress this semester: one counts
C5_Witness ==
    /\ Len(records_list) = 1
    /\ {"MTH 1", "MTH 9"} \subseteq DOMAIN records_list[1]
    /\ records_list[1]["MTH 1"] = CURR_SEM
    /\ records_list[1]["MTH 9"] = CURR_SEM
    /\ records_list[1][K_now("MTH")] = 1

\* C6: a call that meets a transcript without Name, Student ID or Sex line ends
\* by the exception, with no table, no file and no rows; every transcript a
\* call got past has the three; and a row has the three address lines of its
\* transcript, or three empty strings when the transcript has no address.
C6_Abort ==
    /\ pc = "raised" =>
           /\ df = << >> /\ ~written /\ records_list = << >>
           /\ raised = "IndexError in personal_info"
           /\ ~WellFormed(docs[idx].head)
    /\ pc \in {"loop", "returned"} =>
           /\ Len(records_list) = idx - 1
           /\ \A i \in 1..Len(records_list) :
                  /\ WellFormed(docs[i].head)
                  /\ {"Address1", "Address2", "Address3"} \subseteq DOMAIN records_list[i]
                  /\ <<records_list[i]["Address1"], records_list[i]["Address2"],
                       records_list[i]["Address3"]>>
                         = IF docs[i].head.addr THEN <<"1 Main", "Town", "NY">>
                           ELSE <<"", "", "">>
    /\ pc = "returned" => Len(df[1].rows) = Len(docs)

\* a call that ended at its second transcript, after a first without address
C6_Witness ==
    /\ pc = "raised" /\ idx = 2
    /\ ~docs[1].head.addr /\ WellFormed(docs[1].head)
    /\ records_list = << >> /\ df = << >> /\ ~written

\* C7: the semester split of every block has odd length; its even elements are
\* the semester headers, its odd elements hold no header, together they are
\* the block; a block without header gives one element; and grades_of_subj
\* raises its structural exception exactly when the length is even.
C7_OddSplit ==
    spc = "split" =>
        \A i \in 1..Len(blocks) :
            LET split == splits[i]
            IN  /\ Len(split) % 2 = 1
                /\ Concat(split) = blocks[i]
                /\ \A n \in 1..Len(split) :
                       IF n % 2 = 0
                       THEN SemLenAt(split[n], 1) = Len(split[n])
                       ELSE \A r \in 1..Len(split[n]) : SemLenAt(split[n], r) = 0
                /\ (\A r \in 1..Len(blocks[i]) : SemLenAt(blocks[i], r) = 0)
                       => Len(split) = 1
                /\ split_raised[i] = (Len(split) % 2 = 0)

\* a block with two semester headers: five elements
C7_Witness ==
    /\ spc = "split"
    /\ \E i \in 1..Len(blocks) : Len(splits[i]) = 5 /\ ~split_raised[i]

\* the positions of the name marker in the text
Occ == {p \in 1..Len(text) : StartsAt(text, p, NAME_SPLITTER)}

\* the i-th of them
Nth(i) == CHOOSE p \in Occ : Cardinality({q \in Occ : q < p}) = i - 1

\* C8: the blocks are the pieces of the text from one name marker to the next,
\* one for every marker, and the names are as many as the blocks, the i-th
\* the text from the marker of block i to the next newline.
C8_Partition ==
    spc \in {"separated", "split"} =>
        /\ Len(blocks) = Cardinality(Occ)
        /\ \A i \in 1..Len(blocks) :
               blocks[i] = Sub(text, Nth(i),
                               IF i < Len(blocks) THEN Nth(i + 1) - 1 ELSE Len(text))
        /\ Len(names) = Len(blocks)
        /\ \A i \in 1..Len(blocks) :
               LET from == Nth(i) + Len(NAME_SPLITTER)
               IN  /\ Find(text, from, NL) # 0
                   /\ names[i] = Sub(text, from, Find(text, from, NL) - 1)

\* C9: no call ends by an exception of the course extraction other than the
\* structural one of the semester split.
C9_NoOtherFailure ==
    /\ raised # "IndexError in grades_of_subj"
    /\ Len(records_list) = 1 =>
           \A j \in 1..Len(SUBJECTS) :
               CourseAt(docs[1], SUBJECTS[j]) = {}
                   => RowKeys(records_list[1], SUBJECTS[j]) = {}

\* C10: whatever the Plan, no call ends by the KeyError of subj_summary, and
\* the summary of a subject is the one of its course keys alone.
C10_PlanDoesNotInterfere ==
    /\ raised # "KeyError in subj_summary"
    /\ Len(records_list) = 1 =>
           \A j \in 1..Len(SUBJECTS) :
               LET subj == SUBJECTS[j]
                   row  == records_list[1]
               IN  /\ row[K_now(subj)] =
                          Cardinality({k \in RowKeys(row, subj) :
                                          k \notin IGNORE_COURSES[subj] /\ row[k] = CURR_SEM})
                   /\ row[K_courses(subj)] =
                          Cardinality({k \in RowKeys(row, subj) :
                                          /\ k \notin IGNORE_COURSES[subj]
                                          /\ row[k] \in DOMAIN GPA_VAL})

=============================================================================
